---- MODULE Spec2Model ----
(***************************************************************************)
(* Model of databricks_cli/utils.py (eat_exceptions, error_and_quit,       *)
(* LoadingBar) and databricks_cli/notebooks/cli.py (pull, push).           *)
(*                                                                         *)
(* Strings are sequences of tokens, so that formatting is concatenation    *)
(* and two differently built lines are different values.                   *)
(***************************************************************************)
EXTENDS Integers, Sequences, FiniteSets, TLC

\* ------------------------------------------------------------------ bounds
MaxWidth == 3        \* widths 0..MaxWidth are tried for a direct use of loadingbar()
MaxFrames == 3       \* frames the background unit renders before it only waits
MaxWrites == 1       \* incidental writes of the wrapped work
MaxSweepWidth == 4   \* widths 0..MaxSweepWidth are tried when whole cycles are rendered
SyncFrames == 1      \* frames rendered during a sync over the richer trees
MaxPathLen == 3      \* characters of a repository path, when paths are enumerated

\* ------------------------------------------------------- program constants
DEBUG_MODE_on == TRUE
DEBUG_MODE == FALSE

CmdWidth == 10
CmdInterval == 25            \* hundredths of a second (.25)
CmdFillChar == "o"
DefaultFillChar == "."

PullOverwrite_off == FALSE
PullOverwrite == TRUE
PushOverwrite_off == FALSE
PushOverwrite == TRUE
PushExcludeHidden_on == TRUE
PushExcludeHidden == FALSE

\* the remediation hint of line 48-49 (the quoting marks of the literal left out)
Hint == <<"Your authentication information may be incorrect. Please ",
          "reconfigure with dbfs configure">>

\* ------------------------------------------------------------------ inputs
Commands == {"pull", "push", "scoped"}   \* scoped: a with-block over loadingbar(...) by any caller
Widths == 0..MaxWidth
Intervals == {-25, 0, 50}
Names == {<<"n", "b">>, <<".", "h">>}    \* entry base names, as characters

NoExc == [cls |-> "none", name |-> "", status |-> 0, content |-> <<>>, msg |-> <<>>]
StatusText(s) == IF s = 401 THEN "401" ELSE "404"
HTTPError(s) == [cls |-> "HTTPError", name |-> "HTTPError", status |-> s,
                 content |-> <<"response body ", StatusText(s)>>,
                 msg |-> <<StatusText(s), " Client Error">>]
GenericError(n) == [cls |-> "Exception", name |-> n, status |-> 0,
                    content |-> <<>>, msg |-> <<"message of ", n>>]
Statuses == {401, 404}
WorkFaults == {HTTPError(s) : s \in Statuses} \cup {GenericError("IOError")}

VARIABLES
    cmd, verbose, debug_mode,      \* the invocation: command, --verbose, --debug
    width, interval, fill_char,    \* LoadingBar parameters
    pc, ip, exc, message, exitCode, \* foreground position, pending exception, error message
    sys_stdout, original_stdout,   \* sys.stdout of the foreground and the saved one
    dummy_closed,
    stop_event,
    bgPc, bgStdout, i, frames,     \* background unit: position, its sys.stdout, cursor
    realOut, sinkOut, stderrOut,   \* what was written where
    events,                        \* lifecycle events in order
    local, remote, todo, writes,   \* the two trees, entries still to visit
    treeCalls,                     \* calls of the workspace API made by the command
    in_repo, repo_path,            \* is the cwd in a repository, and its top-level path
    username, folder,              \* get_config().username and the --folder option
    local_folder, remote_folder,   \* the pair _get_local_and_remote_folders returns
    frame_limit                    \* frames the background unit renders before it waits

vars == <<cmd, verbose, debug_mode, width, interval, fill_char, pc, ip, exc, message,
          exitCode, sys_stdout, original_stdout, dummy_closed, stop_event, bgPc,
          bgStdout, i, frames, realOut, sinkOut, stderrOut, events, local, remote,
          todo, writes, treeCalls, in_repo, repo_path, username, folder,
          local_folder, remote_folder, frame_limit>>

argVars == <<cmd, verbose, debug_mode, width, interval, fill_char, in_repo, repo_path,
             username, folder, frame_limit>>
inputVars == <<argVars, local_folder, remote_folder>>
bgVars == <<bgPc, bgStdout, i, frames>>
treeVars == <<local, remote, todo, treeCalls>>

\* ----------------------------------------------------------------- helpers
bgAlive == bgPc \notin {"idle", "terminated", "crashed"}

Range(s) == {s[k] : k \in 1..Len(s)}

\* bar: width spaces
Spaces(w) == [k \in 1..w |-> " "]

\* bar[:j] + fill_char + bar[j + 1:]   (j is the 0-based index of the code)
Frame(w, j, c) == SubSeq(Spaces(w), 1, j) \o <<c>> \o SubSeq(Spaces(w), j + 2, w)

Reverse(s) == [k \in 1..Len(s) |-> s[Len(s) + 1 - k]]

\* range(width - 1): the last column is never reached
Bars_short(w, c) ==
    LET fwd == [k \in 1..(IF w > 1 THEN w - 1 ELSE 0) |-> Frame(w, k - 1, c)]
        inner == SubSeq(fwd, 2, Len(fwd) - 1)
    IN  fwd \o Reverse(inner)

\* reversed(bars) in place of reversed(bars[1:-1]): both ends shown twice
Bars_full_reverse(w, c) ==
    LET fwd == [k \in 1..(IF w > 0 THEN w ELSE 0) |-> Frame(w, k - 1, c)]
    IN  fwd \o Reverse(fwd)

\* the list built by lines 111-115: the sweep and its way back
Bars(w, c) ==
    LET fwd == [k \in 1..(IF w > 0 THEN w ELSE 0) |-> Frame(w, k - 1, c)]
        inner == SubSeq(fwd, 2, Len(fwd) - 1)          \* bars[1:-1]
    IN  fwd \o Reverse(inner)

\* a write to the stream target, by who
Written(who, text) == [by |-> who, text |-> text, alive |-> bgAlive, stopped |-> stop_event]

WriteTo(target, who, text) ==
    /\ realOut' = IF target = "real" THEN Append(realOut, Written(who, text)) ELSE realOut
    /\ sinkOut' = IF target = "sink" THEN Append(sinkOut, Written(who, text)) ELSE sinkOut

NoWrite == UNCHANGED <<realOut, sinkOut>>

Event(e) == events' = Append(events, e)

IsHidden(name) == name[1] = "."

\* an entry is a Folder or a Document; the name tells which
FolderNames == {<<"d">>}
Kind(n) == IF n \in FolderNames THEN "Folder" ELSE "Document"

\* a tree: entry name -> content; "L" is content written locally, "R" remotely,
\* "dir" stands for a folder
EmptyTree == [n \in {} |-> "L"]
TreeOver(S, c) == [n \in S |-> IF Kind(n) = "Folder" THEN "dir" ELSE c]
Put(tree, n, v) == [m \in DOMAIN tree \cup {n} |-> IF m = n THEN v ELSE tree[m]]

\* ------------------------------------------------------------ path strings
\* paths, user names and folders are sequences of characters
Whitespace == {" ", "\n", "\t"}

RECURSIVE LStrip(_)
LStrip(s) == IF Len(s) > 0 /\ s[1] \in Whitespace THEN LStrip(Tail(s)) ELSE s

RECURSIVE RStrip(_)
RStrip(s) ==
    IF Len(s) > 0 /\ s[Len(s)] \in Whitespace THEN RStrip(SubSeq(s, 1, Len(s) - 1)) ELSE s

\* str.strip()
Strip(s) == LStrip(RStrip(s))

\* str.split("/"), from position k on, cur being the segment under way
RECURSIVE SplitFrom(_, _, _)
SplitFrom(s, k, cur) ==
    IF k > Len(s) THEN <<cur>>
    ELSE IF s[k] = "/" THEN <<cur>> \o SplitFrom(s, k + 1, <<>>)
    ELSE SplitFrom(s, k + 1, Append(cur, s[k]))

Split(s) == SplitFrom(s, 1, <<>>)

\* what git rev-parse --show-toplevel prints for a repository at path p
GitOutput(p) == p \o <<"\n">>

\* _get_repo_path_and_name (cli.py 12-20): <<path, name>>
GetRepoPathAndName(out) ==
    LET path == Strip(out)
        parts == Split(path)
    IN  <<path, parts[Len(parts)]>>

NotebooksSuffix == <<"/", "n", "o", "t", "e", "b", "o", "o", "k", "s">>
UsersPrefix == <<"/", "U", "s", "e", "r", "s", "/">>

\* the --folder option: absent (None) or a string
NoFolder == [given |-> FALSE, value |-> <<>>]
GivenFolder(f) == [given |-> TRUE, value |-> f]

\* _get_local_and_remote_folders (cli.py 23-31): <<local, remote>>
GetLocalAndRemoteFolders(out, user, alt_remote_folder) ==
    LET pn == GetRepoPathAndName(out)
        loc == pn[1] \o NotebooksSuffix
        rem == IF alt_remote_folder.given
                 THEN alt_remote_folder.value
                 ELSE UsersPrefix \o user \o <<"/">> \o pn[2]
    IN  <<loc, rem>>

DefaultRepo == <<"/", "w", "/", "r">>
DefaultUser == <<"u">>
OtherFolder == <<"/", "x">>

\* --------------------------------------------------------------------- Init
\* the process before it runs: nothing written, no unit started
InitProcess ==
    /\ exc = NoExc
    /\ message = <<>>
    /\ exitCode = -1
    /\ sys_stdout = "real"
    /\ original_stdout = "unset"
    /\ dummy_closed = FALSE
    /\ stop_event = FALSE
    /\ bgPc = "idle"
    /\ bgStdout = "unset"
    /\ i = 0
    /\ frames = 0
    /\ realOut = <<>>
    /\ sinkOut = <<>>
    /\ stderrOut = <<>>
    /\ events = <<>>
    /\ todo = {}
    /\ ip = 1
    /\ writes = 0
    /\ treeCalls = <<>>
    /\ local_folder = <<>>
    /\ remote_folder = <<>>

Init ==
    /\ cmd \in Commands
    /\ verbose \in BOOLEAN
    /\ debug_mode \in BOOLEAN
    /\ repo_path = DefaultRepo
    /\ username = DefaultUser
    /\ frame_limit = MaxFrames
    /\ IF cmd = "scoped"
         THEN /\ width \in Widths
              /\ in_repo = TRUE
              /\ folder = NoFolder
              /\ interval \in Intervals
              /\ fill_char = DefaultFillChar
              /\ verbose = FALSE
              /\ debug_mode = FALSE
              /\ local = EmptyTree /\ remote = EmptyTree
              /\ pc = "init"
         ELSE /\ width = CmdWidth
              /\ in_repo \in BOOLEAN
              /\ folder \in {NoFolder, GivenFolder(OtherFolder)}
              /\ interval = CmdInterval
              /\ fill_char = CmdFillChar
              /\ local \in {TreeOver(S, "L") : S \in SUBSET Names}
              /\ remote \in {TreeOver(S, "R") : S \in SUBSET Names}
              /\ pc = "provide"
    /\ InitProcess

\* ------------------------------------------------- foreground: the command
fgRest == <<inputVars, bgVars, original_stdout, sys_stdout, dummy_closed, stop_event,
            stderrOut, message, exitCode, ip>>

\* a raise outside the with-block goes straight to the handler of the decorator
Raise(e) ==
    /\ exc' = e
    /\ pc' = "catch"
    /\ Event("raise")

\* @provide_api_client, inside @eat_exceptions (cli.py 41-42, 68-69)
ProvideApiClient ==
    /\ pc = "provide"
    /\ \/ /\ pc' = "resolve" /\ UNCHANGED <<exc, events>>
       \/ Raise(GenericError("InvalidConfigurationError"))
    /\ NoWrite
    /\ UNCHANGED <<fgRest, treeVars, writes>>

\* subprocess.call in place of check_output: the exit status is not looked at
ResolveEndpoints_unchecked ==
    /\ pc = "resolve"
    /\ LET lr == GetLocalAndRemoteFolders(IF in_repo THEN GitOutput(repo_path) ELSE <<>>,
                                          username, folder)
       IN  /\ local_folder' = lr[1]
           /\ remote_folder' = lr[2]
    /\ pc' = "branch"
    /\ NoWrite
    /\ UNCHANGED <<argVars, bgVars, original_stdout, sys_stdout, dummy_closed, stop_event,
                   stderrOut, message, exitCode, ip, treeVars, writes, exc, events>>

\* _get_local_and_remote_folders: check_output raises when git exits non-zero,
\* which it does outside a repository
ResolveEndpoints ==
    /\ pc = "resolve"
    /\ IF in_repo
         THEN LET lr == GetLocalAndRemoteFolders(GitOutput(repo_path), username, folder)
              IN  /\ local_folder' = lr[1]
                  /\ remote_folder' = lr[2]
                  /\ pc' = "branch"
                  /\ UNCHANGED <<exc, events>>
         ELSE /\ Raise(GenericError("CalledProcessError"))
              /\ UNCHANGED <<local_folder, remote_folder>>
    /\ NoWrite
    /\ UNCHANGED <<argVars, bgVars, original_stdout, sys_stdout, dummy_closed, stop_event,
                   stderrOut, message, exitCode, ip, treeVars, writes>>

\* if not verbose: with loadingbar(...): work()  else: work()
UseLoadingBar_inverted == verbose
UseLoadingBar == ~verbose

InWith == cmd = "scoped" \/ UseLoadingBar

Branch ==
    /\ pc = "branch"
    /\ pc' = IF InWith THEN "init" ELSE "call"
    /\ NoWrite
    /\ UNCHANGED <<fgRest, treeVars, writes, exc, events>>

\* the arguments work() passes to the workspace API
TreeCall ==
    IF cmd = "pull"
      THEN [op |-> "export", source |-> remote_folder, target |-> local_folder,
            overwrite |-> PullOverwrite, excludeHidden |-> FALSE, verbose |-> verbose]
      ELSE [op |-> "import", source |-> local_folder, target |-> remote_folder,
            overwrite |-> PushOverwrite, excludeHidden |-> PushExcludeHidden,
            verbose |-> verbose]

\* work() is entered: the tree operation is invoked
CallWork ==
    /\ pc = "call"
    /\ pc' = "work"
    /\ IF cmd = "scoped"
         THEN UNCHANGED <<treeCalls, todo>>
         ELSE /\ treeCalls' = Append(treeCalls, TreeCall)
              /\ todo' = IF cmd = "pull" THEN DOMAIN remote ELSE DOMAIN local
    /\ Event("work_begin")
    /\ NoWrite
    /\ UNCHANGED <<fgRest, local, remote, writes, exc>>
\* ------------------------------------------------ foreground: LoadingBar
\* __init__ (utils.py 127-133)
LB_init ==
    /\ pc = "init"
    /\ original_stdout' = sys_stdout
    /\ pc' = "enter" /\ ip' = 1
    /\ Event("init")
    /\ NoWrite
    /\ UNCHANGED <<inputVars, bgVars, sys_stdout, dummy_closed, stop_event, stderrOut,
                   message, exitCode, exc, treeVars, writes>>

\* the statements of __enter__ (136-137) and of __exit__ (140-143), in order
EnterBody_no_redirect == <<"start">>
EnterBody_redirect_first == <<"redirect", "start">>
EnterBody == <<"start", "redirect">>

ExitBody_no_set == <<"join", "restore", "close">>
ExitBody_no_join == <<"set", "restore", "close">>
ExitBody_no_restore == <<"set", "join", "close">>
ExitBody_set_twice == <<"set", "join", "set", "restore", "close">>
ExitBody == <<"set", "join", "restore", "close">>

CurStmt ==
    IF pc = "enter" THEN EnterBody[ip]
    ELSE IF pc = "exit" THEN ExitBody[ip]
    ELSE "none"

\* where control goes when the with-statement is left
AfterExit ==
    IF cmd = "scoped" THEN "sentinel"
    ELSE IF exc = NoExc THEN "return" ELSE "catch"

Advance ==
    LET body == IF pc = "enter" THEN EnterBody ELSE ExitBody
        after == IF pc = "enter" THEN "call" ELSE AfterExit
    IN  IF ip < Len(body)
          THEN pc' = pc /\ ip' = ip + 1
          ELSE pc' = after /\ ip' = 1

\* self.displayer.start(): the child is forked with the current sys.stdout
LB_start ==
    /\ CurStmt = "start"
    /\ bgPc' = "setup"
    /\ bgStdout' = sys_stdout
    /\ Advance
    /\ Event("start")
    /\ NoWrite
    /\ UNCHANGED <<inputVars, i, frames, original_stdout, sys_stdout, dummy_closed,
                   stop_event, stderrOut, message, exitCode, exc, treeVars, writes>>

\* sys.stdout = self.dummy_stdout
LB_redirect ==
    /\ CurStmt = "redirect"
    /\ sys_stdout' = "sink"
    /\ Advance
    /\ Event("redirect")
    /\ NoWrite
    /\ UNCHANGED <<inputVars, bgVars, original_stdout, dummy_closed, stop_event,
                   stderrOut, message, exitCode, exc, treeVars, writes>>

\* self.stop_event.set()
LB_set ==
    /\ CurStmt = "set"
    /\ stop_event' = TRUE
    /\ Advance
    /\ Event("set")
    /\ NoWrite
    /\ UNCHANGED <<inputVars, bgVars, original_stdout, sys_stdout, dummy_closed,
                   stderrOut, message, exitCode, exc, treeVars, writes>>

\* self.displayer.join(): returns once the child has ended
LB_join ==
    /\ CurStmt = "join"
    /\ bgPc \in {"terminated", "crashed"}
    /\ Advance
    /\ Event("join")
    /\ NoWrite
    /\ UNCHANGED <<inputVars, bgVars, original_stdout, sys_stdout, dummy_closed,
                   stop_event, stderrOut, message, exitCode, exc, treeVars, writes>>

\* sys.stdout = self.original_stdout
LB_restore ==
    /\ CurStmt = "restore"
    /\ sys_stdout' = original_stdout
    /\ Advance
    /\ Event("restore")
    /\ NoWrite
    /\ UNCHANGED <<inputVars, bgVars, original_stdout, dummy_closed, stop_event,
                   stderrOut, message, exitCode, exc, treeVars, writes>>

\* self.dummy_stdout.close()
LB_close ==
    /\ CurStmt = "close"
    /\ dummy_closed' = TRUE
    /\ Advance
    /\ Event("close")
    /\ NoWrite
    /\ UNCHANGED <<inputVars, bgVars, original_stdout, sys_stdout, stop_event,
                   stderrOut, message, exitCode, exc, treeVars, writes>>
\* ------------------------------------------- foreground: the wrapped work
\* exportTree, one entry (spec 4.2 steps 3-4): a folder is created if absent;
\* a document is written unless it exists and overwrite is off
ExportEntry(dst, src, n, overwrite) ==
    IF Kind(n) = "Folder" THEN (IF n \in DOMAIN dst THEN dst ELSE Put(dst, n, "dir"))
    ELSE IF ~overwrite /\ n \in DOMAIN dst THEN dst
    ELSE Put(dst, n, src[n])

\* importTree, one entry (spec 4.3 steps 2-4)
ImportEntry(dst, src, n, overwrite, excludeHidden) ==
    IF excludeHidden /\ IsHidden(n) THEN dst
    ELSE IF Kind(n) = "Folder" THEN (IF n \in DOMAIN dst THEN dst ELSE Put(dst, n, "dir"))
    ELSE IF ~overwrite /\ n \in DOMAIN dst THEN dst
    ELSE Put(dst, n, src[n])

\* control leaves work(): into __exit__ when inside the with-statement
LeaveWork(e) ==
    /\ exc' = e
    /\ IF InWith THEN pc' = "exit"
       ELSE pc' = IF e = NoExc THEN "return" ELSE "catch"
    /\ events' = events \o (IF e = NoExc THEN <<"work_end">> ELSE <<"raise", "work_end">>)

workRest == <<inputVars, bgVars, original_stdout, sys_stdout, dummy_closed, stop_event,
              stderrOut, message, exitCode, ip>>

\* the tree operation visits one entry, reporting it when verbose
WorkEntry ==
    /\ pc = "work"
    /\ \E n \in todo :
         LET call == treeCalls[Len(treeCalls)] IN
         /\ todo' = todo \ {n}
         /\ IF call.op = "export"
              THEN /\ local' = ExportEntry(local, remote, n, call.overwrite)
                   /\ UNCHANGED remote
              ELSE /\ remote' = ImportEntry(remote, local, n, call.overwrite,
                                            call.excludeHidden)
                   /\ UNCHANGED local
         /\ IF call.verbose
              THEN WriteTo(sys_stdout, "fg", <<"entry ">> \o n)
              ELSE NoWrite
    /\ UNCHANGED <<workRest, pc, exc, events, treeCalls, writes>>

\* incidental output of the wrapped work
WorkWrite ==
    /\ pc = "work"
    /\ writes < MaxWrites
    /\ writes' = writes + 1
    /\ WriteTo(sys_stdout, "fg", <<"incidental">>)
    /\ UNCHANGED <<workRest, pc, exc, events, treeVars>>

WorkRaise ==
    /\ pc = "work"
    /\ \E e \in WorkFaults : LeaveWork(e)
    /\ NoWrite
    /\ UNCHANGED <<workRest, treeVars, writes>>

WorkReturn ==
    /\ pc = "work"
    /\ todo = {}
    /\ LeaveWork(NoExc)
    /\ NoWrite
    /\ UNCHANGED <<workRest, treeVars, writes>>

\* ---------------------------------------- foreground: the command boundary
\* the message eat_exceptions hands to error_and_quit (utils.py 46-54)
EatExceptionsMessage_kind_always(e) ==
    IF e.cls = "HTTPError" /\ e.status = 401 THEN Hint
    ELSE <<e.name, ": ">> \o e.msg

EatExceptionsMessage_no_hint(e) ==
    IF e.cls = "HTTPError" THEN e.content ELSE <<e.name, ": ">> \o e.msg

EatExceptionsMessage(e) ==
    IF e.cls = "HTTPError"
      THEN IF e.status = 401 THEN Hint ELSE e.content
      ELSE <<e.name, ": ">> \o e.msg

\* an except-Exception with DEBUG_MODE set does nothing: the decorator returns
Swallowed(e) == e.cls # "HTTPError" /\ DEBUG_MODE

Catch ==
    /\ pc = "catch"
    /\ IF Swallowed(exc)
         THEN pc' = "return" /\ UNCHANGED message
         ELSE pc' = "error_and_quit" /\ message' = EatExceptionsMessage(exc)
    /\ Event("catch")
    /\ NoWrite
    /\ UNCHANGED <<inputVars, bgVars, original_stdout, sys_stdout, dummy_closed,
                   stop_event, stderrOut, exitCode, ip, exc, treeVars, writes>>

\* 'Error: {}'.format(message)
ErrorLine(m) == <<"Error: ">> \o m

\* error_and_quit (utils.py 59-65)
ErrorAndQuit ==
    /\ pc = "error_and_quit"
    /\ stderrOut' = IF debug_mode THEN Append(stderrOut, "traceback") ELSE stderrOut
    /\ WriteTo(sys_stdout, "fg", ErrorLine(message))
    /\ exitCode' = 1
    /\ pc' = "done"
    /\ Event("exit")
    /\ UNCHANGED <<inputVars, bgVars, original_stdout, sys_stdout, dummy_closed,
                   stop_event, message, ip, exc, treeVars, writes>>

\* the command returns normally
Return ==
    /\ pc = "return"
    /\ exitCode' = 0
    /\ pc' = "done"
    /\ Event("exit")
    /\ NoWrite
    /\ UNCHANGED <<inputVars, bgVars, original_stdout, sys_stdout, dummy_closed,
                   stop_event, stderrOut, message, ip, exc, treeVars, writes>>

\* the caller of a with-block writes to sys.stdout after the block
Sentinel ==
    /\ pc = "sentinel"
    /\ WriteTo(sys_stdout, "fg", <<"sentinel">>)
    /\ exitCode' = IF exc = NoExc THEN 0 ELSE 1
    /\ pc' = "done"
    /\ Event("exit")
    /\ UNCHANGED <<inputVars, bgVars, original_stdout, sys_stdout, dummy_closed,
                   stop_event, stderrOut, message, ip, exc, treeVars, writes>>

\* ------------------------------------------- background: _displayer
bgRest == <<inputVars, pc, ip, exc, message, exitCode, sys_stdout, original_stdout,
            dummy_closed, stop_event, treeVars, writes, bgStdout>>

\* lines 111-117: bars, n and i = 0
BG_setup ==
    /\ bgPc = "setup"
    /\ i' = 0
    /\ bgPc' = "check"
    /\ NoWrite
    /\ UNCHANGED <<bgRest, frames, stderrOut, events>>

\* line 119: if stop_event.is_set()
BG_check ==
    /\ bgPc = "check"
    /\ IF stop_event
         THEN bgPc' = "final"
         ELSE frames < frame_limit /\ bgPc' = "render"
    /\ NoWrite
    /\ UNCHANGED <<bgRest, i, frames, stderrOut, events>>

\* lines 120-121: the final newline, then return
BG_final ==
    /\ bgPc = "final"
    /\ WriteTo(bgStdout, "bg", <<"\n">>)
    /\ bgPc' = "terminated"
    /\ Event("bg_end")
    /\ UNCHANGED <<bgRest, i, frames, stderrOut>>

\* '\r{} [{}]'.format(msg, bars[i])
FrameLine(bar) == <<"\r", "msg", " [">> \o bar \o <<"]">>

\* lines 122-124: bars[i] is an IndexError on an empty list
BG_render ==
    /\ bgPc = "render"
    /\ LET bars == Bars(width, fill_char)
           n == Len(bars)
       IN  IF i >= n
             THEN /\ bgPc' = "crashed"
                  /\ stderrOut' = Append(stderrOut, "IndexError")
                  /\ Event("bg_end")
                  /\ NoWrite
                  /\ UNCHANGED <<i, frames>>
             ELSE /\ WriteTo(bgStdout, "bg", FrameLine(bars[i + 1]))
                  /\ i' = (i + 1) % n
                  /\ frames' = frames + 1
                  /\ bgPc' = "sleep"
                  /\ UNCHANGED <<stderrOut, events>>
    /\ UNCHANGED bgRest

\* the flag is looked at only when the frame limit is reached
BG_sleep_no_recheck ==
    /\ bgPc = "sleep"
    /\ bgPc' = IF frames < frame_limit THEN "render" ELSE "check"
    /\ NoWrite
    /\ UNCHANGED <<bgRest, i, frames, stderrOut, events>>

\* line 125: time.sleep(interval) refuses a negative interval
BG_sleep ==
    /\ bgPc = "sleep"
    /\ IF interval < 0
         THEN /\ bgPc' = "crashed"
              /\ stderrOut' = Append(stderrOut, "IOError")
              /\ Event("bg_end")
         ELSE /\ bgPc' = "check"
              /\ UNCHANGED <<stderrOut, events>>
    /\ NoWrite
    /\ UNCHANGED <<bgRest, i, frames>>

\* ------------------------------------------------------------ specification
Next ==
    \/ ProvideApiClient
    \/ ResolveEndpoints
    \/ Branch
    \/ LB_init
    \/ LB_start
    \/ LB_redirect
    \/ CallWork
    \/ WorkEntry
    \/ WorkWrite
    \/ WorkRaise
    \/ WorkReturn
    \/ LB_set
    \/ LB_join
    \/ LB_restore
    \/ LB_close
    \/ Catch
    \/ ErrorAndQuit
    \/ Return
    \/ Sentinel
    \/ BG_setup
    \/ BG_check
    \/ BG_final
    \/ BG_render
    \/ BG_sleep

Spec == Init /\ [][Next]_vars

\* the child process is scheduled, and so is the foreground inside __exit__
BgStep == BG_setup \/ BG_check \/ BG_final \/ BG_render \/ BG_sleep
ReleaseStep == LB_set \/ LB_join \/ LB_restore \/ LB_close

\* the runs that use the loading bar, over one document on either side
InitLive ==
    /\ cmd \in Commands
    /\ verbose = FALSE
    /\ debug_mode = FALSE
    /\ in_repo = TRUE
    /\ repo_path = DefaultRepo
    /\ username = DefaultUser
    /\ folder = NoFolder
    /\ frame_limit = MaxFrames
    /\ IF cmd = "scoped"
         THEN /\ width \in Widths
              /\ interval \in Intervals
              /\ fill_char = DefaultFillChar
              /\ local = EmptyTree /\ remote = EmptyTree
              /\ pc = "init"
         ELSE /\ width = CmdWidth
              /\ interval = CmdInterval
              /\ fill_char = CmdFillChar
              /\ local = TreeOver({<<"n", "b">>}, "L")
              /\ remote = TreeOver({<<"n", "b">>}, "R")
              /\ pc = "provide"
    /\ InitProcess

LiveSpec == InitLive /\ [][Next]_vars /\ WF_vars(BgStep) /\ WF_vars(ReleaseStep)

\* ------------------------------------ the loading bar over whole cycles
FillChars == {".", "#"}

\* a with-block over loadingbar(width, fill_char) whose background unit gets
\* the time to go through its list twice and one frame more
InitFrames ==
    /\ cmd = "scoped"
    /\ verbose = FALSE
    /\ debug_mode = FALSE
    /\ in_repo = TRUE
    /\ repo_path = DefaultRepo
    /\ username = DefaultUser
    /\ folder = NoFolder
    /\ width \in 0..MaxSweepWidth
    /\ interval \in {0, 50}
    /\ fill_char \in FillChars
    /\ frame_limit = 2 * Len(Bars(width, fill_char)) + 1
    /\ local = EmptyTree
    /\ remote = EmptyTree
    /\ pc = "init"
    /\ InitProcess

NextFrames ==
    \/ LB_init
    \/ LB_start
    \/ LB_redirect
    \/ CallWork
    \/ WorkReturn
    \/ LB_set
    \/ LB_join
    \/ LB_restore
    \/ LB_close
    \/ Sentinel
    \/ BG_setup
    \/ BG_check
    \/ BG_final
    \/ BG_render
    \/ BG_sleep

SpecFrames == InitFrames /\ [][NextFrames]_vars

\* ----------------------------------------- full syncs over richer trees
SyncNames == Names \cup FolderNames

\* pull and push inside a repository, over trees with folders and documents
InitSync ==
    /\ cmd \in {"pull", "push"}
    /\ verbose \in BOOLEAN
    /\ debug_mode = FALSE
    /\ in_repo = TRUE
    /\ repo_path = DefaultRepo
    /\ username = DefaultUser
    /\ folder = NoFolder
    /\ frame_limit = SyncFrames
    /\ width = CmdWidth
    /\ interval = CmdInterval
    /\ fill_char = CmdFillChar
    /\ local \in {TreeOver(S, "L") : S \in SUBSET SyncNames}
    /\ remote \in {TreeOver(S, "R") : S \in SUBSET SyncNames}
    /\ pc = "provide"
    /\ InitProcess

NextSync ==
    \/ ProvideApiClient
    \/ ResolveEndpoints
    \/ Branch
    \/ LB_init
    \/ LB_start
    \/ LB_redirect
    \/ CallWork
    \/ WorkEntry
    \/ WorkRaise
    \/ WorkReturn
    \/ LB_set
    \/ LB_join
    \/ LB_restore
    \/ LB_close
    \/ Catch
    \/ ErrorAndQuit
    \/ Return
    \/ BG_setup
    \/ BG_check
    \/ BG_final
    \/ BG_render
    \/ BG_sleep

SpecSync == InitSync /\ [][NextSync]_vars

\* ------------------------------------- endpoint resolution over many inputs
PathChars == {"/", "a", " "}

\* absolute paths as git prints them: no trailing slash but for the root
Paths ==
    {p \in UNION {[1..n -> PathChars] : n \in 1..MaxPathLen} :
        p[1] = "/" /\ (Len(p) > 1 => p[Len(p)] # "/")}

Usernames == {<<"u">>, <<"a", "@", "b">>}
Folders == {NoFolder, GivenFolder(<<>>), GivenFolder(OtherFolder)}

InitResolve ==
    /\ cmd \in {"pull", "push"}
    /\ verbose = FALSE
    /\ debug_mode = FALSE
    /\ in_repo \in BOOLEAN
    /\ repo_path \in Paths
    /\ username \in Usernames
    /\ folder \in Folders
    /\ frame_limit = MaxFrames
    /\ width = CmdWidth
    /\ interval = CmdInterval
    /\ fill_char = CmdFillChar
    /\ local = EmptyTree
    /\ remote = EmptyTree
    /\ pc = "provide"
    /\ InitProcess

NextResolve ==
    \/ ProvideApiClient
    \/ ResolveEndpoints

SpecResolve == InitResolve /\ [][NextResolve]_vars
\* ------------------------------------------------------------- vocabulary
Happened(e) == e \in Range(events)

\* every occurrence of b comes after an occurrence of a
Precedes(a, b) ==
    \A k \in 1..Len(events) : events[k] = b => \E j \in 1..(k - 1) : events[j] = a

\* the with-statement was entered and has been left
ScopeExited == Happened("init") /\ pc \in {"sentinel", "return", "catch", "error_and_quit", "done"}

IsErrorLine(w) == Len(w.text) > 0 /\ w.text[1] = "Error: "
ErrorLines(out) == {k \in 1..Len(out) : IsErrorLine(out[k])}
BgWrites(out) == {k \in 1..Len(out) : out[k].by = "bg"}
WorkText(w) == w.text = <<"incidental">> \/ (Len(w.text) > 0 /\ w.text[1] = "entry ")
Newlines(out) == {k \in 1..Len(out) : out[k].by = "bg" /\ out[k].text = <<"\n">>}

\* ------------------------------------------------------------------ claims
\* C1: once the with-statement over the loading bar has been left, by return
\* or by exception, sys.stdout is the stream it was before, and what is
\* written afterwards reaches that stream, not the sink.
C1_StdoutRestored ==
    ScopeExited =>
        /\ sys_stdout = "real"
        /\ \A k \in 1..Len(sinkOut) :
              sinkOut[k].text # <<"sentinel">> /\ ~IsErrorLine(sinkOut[k])
        /\ (pc = "done" /\ cmd = "scoped" =>
              Len(realOut) > 0 /\ realOut[Len(realOut)].text = <<"sentinel">>)

C1_Witness ==
    /\ pc = "done" /\ cmd = "scoped" /\ exc # NoExc
    /\ realOut[Len(realOut)].text = <<"sentinel">>
    /\ Happened("restore")

\* C2: the foreground never writes to the real stdout while the background
\* unit is alive: the writes of the wrapped work go to the sink, and stdout
\* is restored only once the background unit has ended.
C2_NoForegroundWriteWhileAlive ==
    /\ \A k \in 1..Len(realOut) : realOut[k].by = "fg" => ~realOut[k].alive
    /\ InWith => \A k \in 1..Len(realOut) : ~WorkText(realOut[k])
    /\ (bgAlive /\ pc \in {"call", "work"}) => sys_stdout = "sink"
    /\ Happened("restore") => ~bgAlive

C2_Witness ==
    /\ pc = "done"
    /\ \E k \in 1..Len(sinkOut) : sinkOut[k].by = "fg" /\ sinkOut[k].alive
    /\ BgWrites(realOut) # {}

\* C3: a failing pull or push is caught once, prints exactly one Error line
\* on the real stdout and exits with code 1; exit code 0 means nothing raised.
C3_ErrorsReported ==
    cmd # "scoped" =>
        /\ Cardinality({k \in 1..Len(events) : events[k] = "catch"}) <= 1
        /\ (pc = "done" /\ Happened("raise")) =>
              /\ exitCode = 1
              /\ Happened("catch")
              /\ Cardinality(ErrorLines(realOut)) = 1
              /\ ErrorLines(sinkOut) = {}
        /\ (pc = "done" /\ exitCode = 0) => ~Happened("raise") /\ ErrorLines(realOut) = {}

C3_Witness ==
    /\ cmd = "pull" /\ pc = "done" /\ debug_mode /\ ~verbose
    /\ exc = GenericError("IOError")
    /\ exitCode = 1 /\ stderrOut = <<"traceback">>
    /\ Cardinality(ErrorLines(realOut)) = 1

\* C4: the stop signal is set exactly once per use, at scope exit, after the
\* wrapped work has finished, whether it returned or raised.
C4_StoppedOnce ==
    /\ Cardinality({k \in 1..Len(events) : events[k] = "set"}) <= 1
    /\ stop_event <=> Happened("set")
    /\ Precedes("work_end", "set")
    /\ pc \in {"enter", "call", "work"} => ~stop_event
    /\ ScopeExited => stop_event

C4_Witness ==
    /\ pc = "done" /\ cmd = "push" /\ exc # NoExc
    /\ Cardinality({k \in 1..Len(events) : events[k] = "set"}) = 1
\* C5 as stated: the redirection is set up before the background unit
\* starts and torn down after it has stopped.
C5_RedirectBeforeStart ==
    /\ Precedes("redirect", "start")
    /\ Precedes("bg_end", "restore")

\* C5 amended: the background unit is started first and the redirection is
\* set up right after, before the wrapped work begins; the redirection is
\* torn down only after the background unit has stopped.
C5_StartThenRedirect ==
    /\ Precedes("start", "redirect")
    /\ InWith => Precedes("redirect", "work_begin")
    /\ Precedes("bg_end", "restore")
    /\ Precedes("redirect", "restore")
    /\ bgPc # "idle" => bgStdout = "real"

C5_Witness ==
    /\ pc = "done" /\ Happened("restore") /\ Happened("redirect")
    /\ BgWrites(realOut) # {}

\* C6: when the tree operation raises inside the loading bar, the bar is
\* torn down before the Error line is printed: the stop signal is set, the
\* background unit has ended after its newline, stdout is the real one; the
\* Error line lands on the real stdout and no frame follows it.
C6_TornDownBeforeErrorLine ==
    (cmd # "scoped" /\ InWith) =>
        /\ pc = "error_and_quit" /\ Happened("work_begin") =>
              /\ stop_event
              /\ bgPc = "terminated"
              /\ sys_stdout = "real"
              /\ Newlines(realOut) # {}
        /\ ErrorLines(sinkOut) = {}
        /\ \A k \in ErrorLines(realOut) :
              /\ ~realOut[k].alive
              /\ \A j \in BgWrites(realOut) : j < k

C6_Witness ==
    /\ cmd = "pull" /\ InWith /\ pc = "done"
    /\ exc = HTTPError(404)
    /\ frames > 0
    /\ ErrorLines(realOut) = {Len(realOut)}

\* C7: for every use of the loading bar the background unit writes the
\* final newline before release completes, exactly once, as its last write.
C7_FinalNewline ==
    Happened("close") =>
        /\ Cardinality(Newlines(realOut)) = 1
        /\ \A k \in BgWrites(realOut) : \A n \in Newlines(realOut) : k <= n

\* C8: the loading bar is used exactly when verbose is off; the tree
\* operation runs once, between acquisition and release when the bar is
\* used, and with verbose on no background unit is ever started.
C8_BarIffNotVerbose ==
    cmd # "scoped" =>
        /\ Len(treeCalls) <= 1
        /\ Happened("work_begin") <=> Len(treeCalls) = 1
        /\ Happened("init") => ~verbose
        /\ (~verbose /\ Happened("work_begin")) => Happened("init")
        /\ verbose => bgPc = "idle" /\ BgWrites(realOut) = {} /\ BgWrites(sinkOut) = {}
        /\ ~verbose =>
              /\ Precedes("start", "work_begin")
              /\ Precedes("redirect", "work_begin")
              /\ Precedes("work_end", "set")
              /\ Precedes("work_end", "restore")
              /\ pc = "work" => ~stop_event /\ bgPc # "idle" /\ sys_stdout = "sink"
        /\ (pc = "done" /\ Len(treeCalls) = 0) =>
              exc.name \in {"InvalidConfigurationError", "CalledProcessError"}
        /\ \A k \in 1..Len(realOut) :
              (Len(realOut[k].text) > 0 /\ realOut[k].text[1] = "entry ") =>
                  BgWrites(realOut) = {}

C8_Witness ==
    /\ cmd = "push" /\ ~verbose /\ pc = "done" /\ exc = NoExc
    /\ Len(treeCalls) = 1 /\ Happened("restore") /\ frames > 0

\* C9 as stated: push calls the importer with excludeHidden on, so hidden
\* local entries are never uploaded.
C9_PushExcludesHidden ==
    cmd = "push" =>
        /\ \A k \in 1..Len(treeCalls) : treeCalls[k].excludeHidden
        /\ \A n \in DOMAIN remote : IsHidden(n) => remote[n] # "L"

\* C9 amended: push calls the importer with excludeHidden off, so a push
\* that completes has uploaded the hidden local entries like the others.
C9_PushIncludesHidden ==
    cmd = "push" =>
        /\ \A k \in 1..Len(treeCalls) : ~treeCalls[k].excludeHidden
        /\ (pc = "done" /\ exc = NoExc) =>
              \A n \in DOMAIN local : n \in DOMAIN remote /\ remote[n] = "L"

C9_Witness ==
    /\ cmd = "push" /\ pc = "done" /\ exc = NoExc
    /\ \E n \in DOMAIN local : IsHidden(n) /\ n \in DOMAIN remote /\ remote[n] = "L"

\* the line a failure is reported with
Reported == realOut[Len(realOut)].text
Failed == cmd # "scoped" /\ pc = "done" /\ exc # NoExc

\* C10 as stated: every failure but an HTTP 401 is reported as Error:
\* followed by the kind of the exception and its message.
C10_KindAndMessage ==
    (Failed /\ ~(exc.cls = "HTTPError" /\ exc.status = 401)) =>
        Reported = <<"Error: ", exc.name, ": ">> \o exc.msg

\* C10 amended: a failure that is not an HTTP failure is reported as Error:
\* followed by its kind and message; an HTTP failure with a status other
\* than 401 is reported as Error: followed by the body of the response.
C10_KindAndMessageOrBody ==
    /\ (Failed /\ exc.cls # "HTTPError") =>
          Reported = <<"Error: ", exc.name, ": ">> \o exc.msg
    /\ (Failed /\ exc.cls = "HTTPError" /\ exc.status # 401) =>
          Reported = <<"Error: ">> \o exc.content

C10_Witness ==
    /\ Failed /\ exc = HTTPError(404)
    /\ Reported = <<"Error: ", "response body ", "404">>
\* the last path segment: what follows the last slash
Basename(p) ==
    LET slashes == {k \in 1..Len(p) : p[k] = "/"}
        last == IF slashes = {} THEN 0 ELSE CHOOSE k \in slashes : \A j \in slashes : j <= k
    IN  SubSeq(p, last + 1, Len(p))

\* C12: for every repository path P, user name U and optional override F the
\* resolved pair is local = P + /notebooks and remote = F when F is given
\* (also when it is empty), else /Users/U/basename(P).
C12_Endpoints ==
    (pc = "branch" /\ in_repo) =>
        /\ local_folder = repo_path \o NotebooksSuffix
        /\ remote_folder = IF folder.given
                             THEN folder.value
                             ELSE UsersPrefix \o username \o <<"/">> \o Basename(repo_path)
\* C11: an HTTP 401 raised inside pull or push is reported by the fixed
\* remediation hint, never by the response body or the exception text, and
\* the exit code is 1.
C11_HintOn401 ==
    (Failed /\ exc.cls = "HTTPError" /\ exc.status = 401) =>
        /\ Reported = <<"Error: ">> \o Hint
        /\ Reported # <<"Error: ">> \o exc.content
        /\ Reported # <<"Error: ", exc.name, ": ">> \o exc.msg
        /\ Cardinality(ErrorLines(realOut)) = 1
        /\ exitCode = 1

C11_Witness ==
    /\ Failed /\ exc = HTTPError(401) /\ cmd = "push" /\ InWith
    /\ Reported = <<"Error: ">> \o Hint

\* C13: outside a repository pull and push print an Error line and exit
\* with 1, and no loading bar is started and no tree operation is invoked
\* before that: both trees stay as they were.
C13_OutsideRepository ==
    (cmd # "scoped" /\ ~in_repo) =>
        /\ ~Happened("init") /\ bgPc = "idle"
        /\ treeCalls = <<>> /\ ~Happened("work_begin")
        /\ \A n \in DOMAIN local : local[n] = "L"
        /\ \A n \in DOMAIN remote : remote[n] = "R"
        /\ pc = "done" =>
              /\ exitCode = 1
              /\ Len(realOut) = 1 /\ IsErrorLine(realOut[1])
              /\ sinkOut = <<>>

C13_Witness ==
    /\ cmd = "pull" /\ ~in_repo /\ ~verbose /\ pc = "done"
    /\ exc = GenericError("CalledProcessError")
    /\ DOMAIN remote # {}
    /\ Reported = <<"Error: ", "CalledProcessError", ": ", "message of ", "CalledProcessError">>

\* C14: pull and push invoke the tree operation with overwrite on, whatever
\* the folder override and the verbose flag are.
C14_AlwaysOverwrite ==
    \A k \in 1..Len(treeCalls) : treeCalls[k].overwrite

C14_Witness ==
    /\ cmd = "push" /\ folder.given /\ verbose /\ pc = "done"
    /\ Len(treeCalls) = 1 /\ treeCalls[1].overwrite
    /\ treeCalls[1].target = OtherFolder
\* the bars of the frames the background unit has rendered, in order
IsFrame(w) == w.by = "bg" /\ w.text # <<"\n">>
BarOf(w) == SubSeq(w.text, 4, Len(w.text) - 1)
Shown == LET fr == SelectSeq(realOut, IsFrame) IN [k \in 1..Len(fr) |-> BarOf(fr[k])]

\* the 0-based column of the fill character in a bar
FillColumns(bar) == {j \in 1..Len(bar) : bar[j] = fill_char}
FillColumn(bar) == (CHOOSE j \in FillColumns(bar) : TRUE) - 1

\* C15: one full cycle of the cursor shows exactly width distinct frames.
C15_DistinctFrames ==
    LET n == Len(Bars(width, fill_char)) IN
    /\ Cardinality(Range(Bars(width, fill_char))) = width
    /\ \A a \in 1..Len(Shown) :
          (n > 0 /\ a + n - 1 <= Len(Shown)) =>
              Cardinality({Shown[k] : k \in a..(a + n - 1)}) = width

C15_Witness ==
    /\ width = 3 /\ pc = "done" /\ bgPc = "terminated"
    /\ Len(Shown) >= 4
    /\ Cardinality(Range(Shown)) = 3

\* the column the k-th rendered frame is expected to fill: 0..width-1, then
\* width-2..1, repeated
ExpectedColumn(k) ==
    LET n == 2 * width - 2
        m == (k - 1) % n
    IN  IF m < width THEN m ELSE n - m

\* C17: for width >= 2 every rendered frame is width characters wide with
\* exactly one fill character, and the fill moves by exactly one column
\* from each frame to the next, also from the end of a cycle to the start
\* of the next one.
C17_BounceByOne ==
    width >= 2 =>
        /\ \A k \in 1..Len(Shown) :
              /\ Len(Shown[k]) = width
              /\ Cardinality(FillColumns(Shown[k])) = 1
              /\ \A j \in 1..width : Shown[k][j] \in {fill_char, " "}
              /\ FillColumn(Shown[k]) = ExpectedColumn(k)
        /\ \A k \in 1..(Len(Shown) - 1) :
              LET d == FillColumn(Shown[k + 1]) - FillColumn(Shown[k])
              IN  d = 1 \/ d = -1

C17_Witness ==
    /\ width = 3 /\ Len(Shown) = 6
    /\ FillColumn(Shown[4]) = 1 /\ FillColumn(Shown[5]) = 0 /\ FillColumn(Shown[6]) = 1
\* source and destination of the sync the command performs
Src == IF cmd = "pull" THEN remote ELSE local
Dst == IF cmd = "pull" THEN local ELSE remote
SyncDone == cmd \in {"pull", "push"} /\ pc = "done" /\ exc = NoExc

C18_ReleaseCompletes ==
    /\ (pc = "exit") ~> (pc # "exit" /\ Happened("join") /\ Happened("restore")
                             /\ sys_stdout = "real" /\ ~bgAlive)
    /\ stop_event ~> (bgPc \in {"terminated", "crashed"})

C18_Witness ==
    /\ pc = "done" /\ exc # NoExc /\ frames = frame_limit
    /\ bgPc = "terminated" /\ Happened("restore") /\ sys_stdout = "real"

\* frames written while the stop signal was already set
FramesAfterStop == {k \in 1..Len(realOut) : IsFrame(realOut[k]) /\ realOut[k].stopped}

\* C19: once the stop signal is set the background unit renders at most one
\* more frame, the one of the iteration under way; an iteration that begins
\* with the signal set goes to the final newline, and no frame follows it.
C19_AtMostOneFrameAfterStop ==
    /\ [](Cardinality(FramesAfterStop) <= 1)
    /\ [](\A n \in Newlines(realOut) : \A k \in BgWrites(realOut) : k <= n)
    /\ [][(stop_event /\ bgPc = "check" /\ bgPc' # bgPc) => bgPc' = "final"]_vars

C19_Witness ==
    /\ pc = "done" /\ bgPc = "terminated"
    /\ Cardinality(FramesAfterStop) = 1
    /\ realOut[Len(realOut)].by = "fg"
====
